---- MODULE Spec2Model ----
(***************************************************************************)
(* Model of src/veracode_target_urls.py: the two-level fetch               *)
(* (analyses -> scans) of VeracodeDynamicAnalysis.extract_target_urls and  *)
(* the report/persist step of main.                                        *)
(*                                                                         *)
(* Python values are tagged records, so that None, str, dict and list can  *)
(* sit in the same position, as they can in a decoded JSON body:           *)
(*   None, Str(s), Dict(f) with f a function from keys to values,          *)
(*   List(s) with s a sequence of values.                                  *)
(* The API server is the environment: each response is chosen when the     *)
(* request returns.                                                        *)
(***************************************************************************)
EXTENDS Naturals, Sequences, FiniteSets, TLC

VARIABLES
    pc,        \* control location of the single thread
    analyses,  \* extract_target_urls: the list `analyses` (line 75)
    idx,       \* position of `for analysis in analyses` (1-based)
    scans,     \* the list `scans` of the current analysis (line 95)
    sidx,      \* position of `for scan in scans` (1-based)
    results,   \* the list `results` (line 67), main's `target_urls`
    requests,  \* every session.get issued so far, in order (line 42)
    served,    \* what _make_request returned for each request, in order
    apps,      \* main: the dict `apps` (line 145), in insertion order
    file,      \* content of veracode_target_urls.json
    stdout     \* what main printed from line 138 to line 171

vars == <<pc, analyses, idx, scans, sidx, results, requests, served, apps, file, stdout>>

-----------------------------------------------------------------------------
(* Bounds of the model *)

\* the analyses page lists at most MaxAnalyses analyses
MaxAnalyses == 2

\* the server holds at most MaxScans scans, over all analyses
MaxScans == 2

-----------------------------------------------------------------------------
(* Python values *)

None == [tag |-> "None"]
Str(s) == [tag |-> "str", val |-> s]
Dict(f) == [tag |-> "dict", val |-> f]
List(s) == [tag |-> "list", val |-> s]

\* the literal {} of lines 75, 86, 95, 102
EmptyDict == Dict(<<>>)

\* the literal [] of lines 75 and 95
EmptyList == List(<<>>)

\* Python's truth test, as `not x` and `if x:` apply it
Truthy(v) ==
    CASE v.tag = "None" -> FALSE
      [] v.tag = "str"  -> v.val # ""
      [] v.tag = "dict" -> DOMAIN v.val # {}
      [] v.tag = "list" -> v.val # <<>>

\* whether v has a .get method; v.get(...) raises AttributeError otherwise
HasGet(v) == v.tag = "dict"

\* dict.get(key, default): the default is used only when the key is absent
Get(d, key, default) ==
    IF key \in DOMAIN d.val THEN d.val[key] ELSE default

\* str(v) as an f-string formats it
Format(v) == IF v.tag = "None" THEN "None" ELSE v.val

-----------------------------------------------------------------------------
(* What the server may answer *)

Envelope(key, items) == Dict("_embedded" :> Dict(key :> List(items)))

SeqsUpTo(S, n) == UNION {[1..k -> S] : k \in 0..n}

\* The records a listing may hold. A scalar field is absent, a string or null;
\* a nested object (application, latest_occurrence_status) is absent or an
\* object. A body as a whole may also miss the envelope shape (OtherBodies).
AnalysisItems ==
    { Dict([analysis_id |-> Str("A1"), name |-> Str("App Scan"),
            application |-> Dict([name |-> Str("Shop")])]),
      Dict([analysis_id |-> Str("A2")]),
      Dict([id |-> Str("A1"), name |-> Str("App Scan"),
            application |-> Dict([name |-> Str("Shop")])]) }

ScanItems ==
    { Dict([scan_id |-> Str("S1"), target_url |-> Str("https://shop.example.com"),
            scan_config_name |-> Str("cfg"),
            latest_occurrence_status |-> Dict([status_type |-> Str("FINISHED")]),
            created_on |-> Str("t1"), last_modified_on |-> Str("t2")]),
      Dict([scan_id |-> Str("S2")]),
      Dict([scan_id |-> Str("S3"), target_url |-> Str(""),
            application_name |-> Str("Own")]),
      Dict([scan_id |-> Str("S4"), target_url |-> Str("https://own.example.com"),
            application_name |-> Str("Own")]),
      Dict([scan_id |-> Str("S5"), target_url |-> Str("https://n.example.com"),
            application_name |-> None]) }

\* bodies that are valid JSON but no envelope with a list in it
OtherBodies ==
    { EmptyDict,
      Dict("page" :> Dict("number" :> Str("0"))),
      Dict("_embedded" :> None),
      List(<<Str("error")>>) }

AnalysesBodies ==
    OtherBodies \cup {Envelope("analyses", s) : s \in SeqsUpTo(AnalysisItems, MaxAnalyses)}

ScansBodies(n) ==
    OtherBodies \cup {Envelope("scans", s) : s \in SeqsUpTo(ScanItems, n)}

\* a call of session.get ... response.json() either raises a
\* requests.exceptions.RequestException or yields the decoded body
Outcomes(bodies) ==
    {[kind |-> "RequestException"]} \cup {[kind |-> "ok", body |-> b] : b \in bodies}

-----------------------------------------------------------------------------
(* The client *)

make_request(outcome) ==
    IF outcome.kind = "RequestException" THEN None ELSE outcome.body

AnalysesEndpoint == <<"/was/configservice/v1/analyses">>

ScansEndpoint(analysis_id) ==
    <<"/was/configservice/v1/analyses/", Format(analysis_id), "/scans">>

Request(endpoint) == [method |-> "GET", endpoint |-> endpoint]

AttributeError == [tag |-> "AttributeError"]

\* AnalysisId reading the key `id`
AnalysisIdFromId(analysis) == Get(analysis, "id", None)

\* response.get('_embedded', {}).get(key, []), or the exception it raises
Embedded(response, key) ==
    IF ~HasGet(response) THEN AttributeError
    ELSE LET embedded == Get(response, "_embedded", EmptyDict)
         IN  IF ~HasGet(embedded) THEN AttributeError
             ELSE Get(embedded, key, EmptyList)

AnalysisId(analysis) == Get(analysis, "analysis_id", None)

AnalysisName(analysis) == Get(analysis, "name", Str("Unknown"))

AppName(analysis) ==
    Get(Get(analysis, "application", EmptyDict), "name", Str("Unknown"))

ApplicationName(analysis, scan) == Get(scan, "application_name", AppName(analysis))

TargetUrl(scan) == Get(scan, "target_url", None)

Result(analysis, scan) ==
    [ analysis_id      |-> AnalysisId(analysis),
      analysis_name    |-> AnalysisName(analysis),
      application_name |-> ApplicationName(analysis, scan),
      scan_id          |-> Get(scan, "scan_id", None),
      scan_config_name |-> Get(scan, "scan_config_name", Str("N/A")),
      target_url       |-> TargetUrl(scan),
      latest_status    |-> Get(Get(scan, "latest_occurrence_status", EmptyDict),
                               "status_type", Str("Unknown")),
      created_on       |-> Get(scan, "created_on", Str("Unknown")),
      last_modified_on |-> Get(scan, "last_modified_on", Str("Unknown")) ]

\* scans served so far, over all scans listings
RECURSIVE ScansServed(_)
ScansServed(s) ==
    IF s = <<>> THEN 0
    ELSE LET v == Embedded(s[1], "scans")
         IN  (IF v.tag = "list" THEN Len(v.val) ELSE 0) + ScansServed(Tail(s))

ScansLeft == MaxScans - ScansServed(Tail(served))

-----------------------------------------------------------------------------
(* main up to the call, and extract_target_urls *)

\* veracode_target_urls.json as an earlier run left it
OldFile == [text |-> "previous content"]

Init ==
    /\ pc = "start"
    /\ analyses = <<>>
    /\ idx = 0
    /\ scans = <<>>
    /\ sidx = 0
    /\ results = <<>>
    /\ requests = <<>>
    /\ served = <<>>
    /\ apps = <<>>
    /\ file = OldFile
    /\ stdout = <<>>

\* lines 130-134, 67-70, 58: the analyses listing is requested
get_all_analyses ==
    /\ pc = "start"
    /\ results' = <<>>
    /\ requests' = Append(requests, Request(AnalysesEndpoint))
    /\ pc' = "analyses_wait"
    /\ UNCHANGED <<analyses, idx, scans, sidx, served, apps, file, stdout>>

\* AnalysesFailed without the test of line 71: line 75 then calls None.get
AnalysesFailedUnchecked ==
    /\ pc = "analyses_wait"
    /\ \E outcome \in Outcomes(AnalysesBodies) :
        LET analyses_response == make_request(outcome) IN
        /\ ~Truthy(analyses_response)
        /\ served' = Append(served, analyses_response)
        /\ pc' = "crashed"
        /\ UNCHANGED <<analyses, idx, scans, sidx, results, requests, apps, file, stdout>>

\* lines 71-73
AnalysesFailed ==
    /\ pc = "analyses_wait"
    /\ \E outcome \in Outcomes(AnalysesBodies) :
        LET analyses_response == make_request(outcome) IN
        /\ ~Truthy(analyses_response)
        /\ served' = Append(served, analyses_response)
        /\ pc' = "returned"
        /\ UNCHANGED <<analyses, idx, scans, sidx, results, requests, apps, file, stdout>>

\* line 75 raising AttributeError, which nothing catches
AnalysesRaise ==
    /\ pc = "analyses_wait"
    /\ \E outcome \in Outcomes(AnalysesBodies) :
        LET analyses_response == make_request(outcome) IN
        /\ Truthy(analyses_response)
        /\ Embedded(analyses_response, "analyses") = AttributeError
        /\ served' = Append(served, analyses_response)
        /\ pc' = "crashed"
        /\ UNCHANGED <<analyses, idx, scans, sidx, results, requests, apps, file, stdout>>

\* lines 75-78
AnalysesNone ==
    /\ pc = "analyses_wait"
    /\ \E outcome \in Outcomes(AnalysesBodies) :
        LET analyses_response == make_request(outcome) IN
        /\ Truthy(analyses_response)
        /\ Embedded(analyses_response, "analyses") # AttributeError
        /\ ~Truthy(Embedded(analyses_response, "analyses"))
        /\ served' = Append(served, analyses_response)
        /\ pc' = "returned"
        /\ UNCHANGED <<analyses, idx, scans, sidx, results, requests, apps, file, stdout>>

\* lines 75-80
AnalysesFound ==
    /\ pc = "analyses_wait"
    /\ \E outcome \in Outcomes(AnalysesBodies) :
        LET analyses_response == make_request(outcome) IN
        /\ Truthy(analyses_response)
        /\ Embedded(analyses_response, "analyses") # AttributeError
        /\ Truthy(Embedded(analyses_response, "analyses"))
        /\ served' = Append(served, analyses_response)
        /\ analyses' = Embedded(analyses_response, "analyses").val
        /\ idx' = 1
        /\ pc' = "loop"
        /\ UNCHANGED <<scans, sidx, results, requests, apps, file, stdout>>

\* lines 83-90, 62-63: the next analysis, and its scans listing is requested
get_analysis_scans ==
    /\ pc = "loop"
    /\ idx <= Len(analyses)
    /\ requests' = Append(requests, Request(ScansEndpoint(AnalysisId(analyses[idx]))))
    /\ pc' = "scans_wait"
    /\ UNCHANGED <<analyses, idx, scans, sidx, results, served, apps, file, stdout>>

\* ScansFailed that asks again for the same analysis
ScansFailedRetries ==
    /\ pc = "scans_wait"
    /\ \E outcome \in Outcomes(ScansBodies(ScansLeft)) :
        LET scans_response == make_request(outcome) IN
        /\ ~Truthy(scans_response)
        /\ served' = Append(served, scans_response)
        /\ pc' = "loop"
        /\ UNCHANGED <<analyses, idx, scans, sidx, results, requests, apps, file, stdout>>

\* ScansFailed with `return results` in the place of `continue`
ScansFailedReturns ==
    /\ pc = "scans_wait"
    /\ \E outcome \in Outcomes(ScansBodies(ScansLeft)) :
        LET scans_response == make_request(outcome) IN
        /\ ~Truthy(scans_response)
        /\ served' = Append(served, scans_response)
        /\ pc' = "returned"
        /\ UNCHANGED <<analyses, idx, scans, sidx, results, requests, apps, file, stdout>>

\* lines 91-93
ScansFailed ==
    /\ pc = "scans_wait"
    /\ \E outcome \in Outcomes(ScansBodies(ScansLeft)) :
        LET scans_response == make_request(outcome) IN
        /\ ~Truthy(scans_response)
        /\ served' = Append(served, scans_response)
        /\ idx' = idx + 1
        /\ pc' = "loop"
        /\ UNCHANGED <<analyses, scans, sidx, results, requests, apps, file, stdout>>

\* line 95 raising AttributeError, which nothing catches
ScansRaise ==
    /\ pc = "scans_wait"
    /\ \E outcome \in Outcomes(ScansBodies(ScansLeft)) :
        LET scans_response == make_request(outcome) IN
        /\ Truthy(scans_response)
        /\ Embedded(scans_response, "scans") = AttributeError
        /\ served' = Append(served, scans_response)
        /\ pc' = "crashed"
        /\ UNCHANGED <<analyses, idx, scans, sidx, results, requests, apps, file, stdout>>

\* line 95
ScansFound ==
    /\ pc = "scans_wait"
    /\ \E outcome \in Outcomes(ScansBodies(ScansLeft)) :
        LET scans_response == make_request(outcome) IN
        /\ Truthy(scans_response)
        /\ Embedded(scans_response, "scans") # AttributeError
        /\ served' = Append(served, scans_response)
        /\ scans' = Embedded(scans_response, "scans").val
        /\ sidx' = 1
        /\ pc' = "scan_loop"
        /\ UNCHANGED <<analyses, idx, results, requests, apps, file, stdout>>

\* ForScan with results.insert(0, result) in the place of results.append(result)
ForScanInserts ==
    /\ pc = "scan_loop"
    /\ sidx <= Len(scans)
    /\ results' = IF Truthy(TargetUrl(scans[sidx]))
                  THEN <<Result(analyses[idx], scans[sidx])>> \o results
                  ELSE results
    /\ sidx' = sidx + 1
    /\ UNCHANGED <<pc, analyses, idx, scans, requests, served, apps, file, stdout>>

\* ForScan with `if target_url is not None` in the place of `if target_url`
ForScanNotNone ==
    /\ pc = "scan_loop"
    /\ sidx <= Len(scans)
    /\ results' = IF TargetUrl(scans[sidx]) # None
                  THEN Append(results, Result(analyses[idx], scans[sidx]))
                  ELSE results
    /\ sidx' = sidx + 1
    /\ UNCHANGED <<pc, analyses, idx, scans, requests, served, apps, file, stdout>>

\* lines 97-118: one scan
ForScan ==
    /\ pc = "scan_loop"
    /\ sidx <= Len(scans)
    /\ results' = IF Truthy(TargetUrl(scans[sidx]))
                  THEN Append(results, Result(analyses[idx], scans[sidx]))
                  ELSE results
    /\ sidx' = sidx + 1
    /\ UNCHANGED <<pc, analyses, idx, scans, requests, served, apps, file, stdout>>

\* line 97 exhausted: on to the next analysis
EndScans ==
    /\ pc = "scan_loop"
    /\ sidx > Len(scans)
    /\ idx' = idx + 1
    /\ pc' = "loop"
    /\ UNCHANGED <<analyses, scans, sidx, results, requests, served, apps, file, stdout>>

\* line 120
ExtractReturn ==
    /\ pc = "loop"
    /\ idx > Len(analyses)
    /\ pc' = "returned"
    /\ UNCHANGED <<analyses, idx, scans, sidx, results, requests, served, apps, file, stdout>>

-----------------------------------------------------------------------------
(* main after the call *)

\* AddToGroup that puts a new application before the ones seen so far
AddToGroupFront(groups, result) ==
    LET app_name == result.application_name IN
    IF \E i \in DOMAIN groups : groups[i].key = app_name
    THEN [i \in DOMAIN groups |->
            IF groups[i].key = app_name
            THEN [key |-> app_name, items |-> Append(groups[i].items, result)]
            ELSE groups[i]]
    ELSE <<[key |-> app_name, items |-> <<result>>]>> \o groups

\* lines 148-150: apps[app_name] is created when missing, then appended to
AddToGroup(groups, result) ==
    LET app_name == result.application_name IN
    IF \E i \in DOMAIN groups : groups[i].key = app_name
    THEN [i \in DOMAIN groups |->
            IF groups[i].key = app_name
            THEN [key |-> app_name, items |-> Append(groups[i].items, result)]
            ELSE groups[i]]
    ELSE Append(groups, [key |-> app_name, items |-> <<result>>])

\* lines 145-150: a dict keeps its keys in insertion order
RECURSIVE GroupBy(_, _)
GroupBy(target_urls, groups) ==
    IF target_urls = <<>> THEN groups
    ELSE GroupBy(Tail(target_urls), AddToGroup(groups, target_urls[1]))

\* the keys of a result, in the order lines 106-114 insert them
ResultKeys ==
    << "analysis_id", "analysis_name", "application_name", "scan_id",
       "scan_config_name", "target_url", "latest_status", "created_on",
       "last_modified_on" >>

\* json.dump of a value of a result: None is written null, a str as a string
JsonValue(v) ==
    IF v.tag = "None" THEN [json |-> "null"] ELSE [json |-> "string", text |-> v.val]

JsonObject(result) ==
    [i \in DOMAIN ResultKeys |->
        [key |-> ResultKeys[i], value |-> JsonValue(result[ResultKeys[i]])]]

\* json.dump(target_urls, f, indent=2): an array of objects, in list order
JsonDump(target_urls) ==
    [array |-> [i \in DOMAIN target_urls |-> JsonObject(target_urls[i])]]

\* lines 154-162: the block printed for one result
RECURSIVE PrintResults(_)
PrintResults(app_results) ==
    IF app_results = <<>> THEN <<>>
    ELSE <<[line |-> "Target URL", url |-> Format(app_results[1].target_url)]>>
         \o PrintResults(Tail(app_results))

\* lines 152-162
RECURSIVE PrintGroups(_)
PrintGroups(groups) ==
    IF groups = <<>> THEN <<>>
    ELSE <<[line |-> "Application", name |-> Format(groups[1].key)]>>
         \o PrintResults(groups[1].items) \o PrintGroups(Tail(groups))

TotalLine(target_urls) == [line |-> "Total target URLs found", n |-> Len(target_urls)]

SavedLine == [line |-> "Results saved to", name |-> "veracode_target_urls.json"]

NoneFoundLine == [line |-> "No target URLs found."]

\* lines 137-150: the result set is not empty, it is grouped by application
MainGroup ==
    /\ pc = "returned"
    /\ results # <<>>
    /\ stdout' = <<TotalLine(results)>>
    /\ apps' = GroupBy(results, <<>>)
    /\ pc' = "grouped"
    /\ UNCHANGED <<analyses, idx, scans, sidx, results, requests, served, file>>

\* lines 152-168, 174-180: the report is printed and the file written
MainSave ==
    /\ pc = "grouped"
    /\ stdout' = stdout \o PrintGroups(apps) \o <<SavedLine>>
    /\ file' = JsonDump(results)
    /\ pc' = "exit"
    /\ UNCHANGED <<analyses, idx, scans, sidx, results, requests, served, apps>>

\* MainEmpty with the file written outside the test of line 140
MainEmptyWrites ==
    /\ pc = "returned"
    /\ results = <<>>
    /\ stdout' = <<TotalLine(results), NoneFoundLine>>
    /\ file' = JsonDump(results)
    /\ pc' = "exit"
    /\ UNCHANGED <<analyses, idx, scans, sidx, results, requests, served, apps>>

\* lines 137-140, 170-171, 174-180: the result set is empty
MainEmpty ==
    /\ pc = "returned"
    /\ results = <<>>
    /\ stdout' = <<TotalLine(results), NoneFoundLine>>
    /\ pc' = "exit"
    /\ UNCHANGED <<analyses, idx, scans, sidx, results, requests, served, apps, file>>

Next ==
    \/ get_all_analyses
    \/ AnalysesFailed
    \/ AnalysesRaise
    \/ AnalysesNone
    \/ AnalysesFound
    \/ get_analysis_scans
    \/ ScansFailed
    \/ ScansRaise
    \/ ScansFound
    \/ ForScan
    \/ EndScans
    \/ ExtractReturn
    \/ MainGroup
    \/ MainSave
    \/ MainEmpty

Spec == Init /\ [][Next]_vars

-----------------------------------------------------------------------------
(* What the properties are stated with: the listings as the server sent   *)
(* them, read without the client's code.                                  *)

\* the items of a listing: those of _embedded.<key>, none when there is none
ItemsOf(v, key) ==
    IF /\ v.tag = "dict"
       /\ "_embedded" \in DOMAIN v.val
       /\ v.val["_embedded"].tag = "dict"
       /\ key \in DOMAIN v.val["_embedded"].val
    THEN v.val["_embedded"].val[key].val
    ELSE <<>>

\* a body of the envelope shape: an object whose _embedded, if any, is an object
EnvelopeShaped(v) ==
    /\ v.tag = "dict"
    /\ "_embedded" \in DOMAIN v.val => v.val["_embedded"].tag = "dict"

\* the scan has a target_url and it is not empty
HasUrl(scan) ==
    /\ "target_url" \in DOMAIN scan.val
    /\ scan.val["target_url"].tag = "str"
    /\ scan.val["target_url"].val # ""

\* the scans listing served for the i-th analysis (served[1] is the analyses page)
ScansOf(i) == ItemsOf(served[i + 1], "scans")

RECURSIVE WithUrl(_, _, _)
WithUrl(i, items, j) ==
    IF j > Len(items) THEN <<>>
    ELSE (IF HasUrl(items[j]) THEN <<<<i, j>>>> ELSE <<>>) \o WithUrl(i, items, j + 1)

\* <<i, j>> for every scan j with a target URL of every listing i served so far,
\* in listing order
RECURSIVE DiscoveryFrom(_)
DiscoveryFrom(i) ==
    IF i + 1 > Len(served) THEN <<>>
    ELSE WithUrl(i, ScansOf(i), 1) \o DiscoveryFrom(i + 1)

Discovery == DiscoveryFrom(1)

OwnerAnalysis(k) == analyses[Discovery[k][1]]

OwnerScan(k) == ScansOf(Discovery[k][1])[Discovery[k][2]]

IsPrefix(s, t) == Len(s) <= Len(t) /\ \A k \in DOMAIN s : s[k] = t[k]

Last(s) == s[Len(s)]

\* extract_target_urls has returned to main
Returned == pc \in {"returned", "grouped", "exit"}

\* between two analyses, or after the last
BetweenAnalyses == pc = "loop" \/ Returned

-----------------------------------------------------------------------------
(* Properties *)

\* C1: when the analyses-listing call returned the failure sentinel, or its
\* page holds no analysis, extract_target_urls has returned an empty result
\* set and the analyses request is the only request of the run.
AnalysesFailureReturnsEmpty ==
    (/\ Len(served) >= 1
     /\ \/ served[1] = None
        \/ EnvelopeShaped(served[1]) /\ ItemsOf(served[1], "analyses") = <<>>)
    => /\ Returned
       /\ results = <<>>
       /\ requests = <<Request(AnalysesEndpoint)>>

\* C1 witness: the analyses listing failed and main ran to its end
AnalysesFailureWitness ==
    pc = "exit" /\ served = <<None>>

\* the step in which a scans listing returns the failure sentinel
ScansFailureStep ==
    pc = "scans_wait" /\ Len(served') = Len(served) + 1 /\ Last(served') = None

\* C2: a failing scans listing does not abort the extraction: the step
\* leaves the result set as it is and moves on to the next analysis, no
\* failure ends the run in an exception, every analysis of the page has had
\* its scans requested when the extraction returns, and the returned result
\* set holds one record for every scan with a target URL of the listings
\* that did not fail.
ScansFailureIsLocal ==
    /\ [][ScansFailureStep =>
            /\ results' = results
            /\ pc' = "loop"
            /\ idx' = idx + 1]_vars
    /\ [](pc = "crashed" => Last(served) # None)
    /\ []((Returned /\ analyses # <<>>) =>
            /\ Len(served) = 1 + Len(analyses)
            /\ Len(results) = Len(Discovery))

\* C2 witness: the first of two scans listings failed and the second one
\* contributed a record to the returned result set
ScansFailureWitness ==
    /\ pc = "exit"
    /\ Len(served) = 3
    /\ served[2] = None
    /\ Len(results) = 1

\* the step that handles one scan of a listing
ScanStep == pc = "scan_loop" /\ sidx' = sidx + 1

\* C3: every record of the result set has a non-empty target_url; a scan
\* without target_url, or with an empty one, adds no record and a scan with
\* a non-empty target_url adds exactly one, which carries that URL; between
\* two analyses the result set has as many records as the listings served
\* so far have scans with a target URL.
OneRecordPerTargetUrl ==
    /\ [](\A k \in DOMAIN results :
            results[k].target_url.tag = "str" /\ results[k].target_url.val # "")
    /\ [][ScanStep =>
            IF HasUrl(scans[sidx])
            THEN /\ Len(results') = Len(results) + 1
                 /\ IsPrefix(results, results')
                 /\ Last(results').target_url = scans[sidx].val["target_url"]
            ELSE results' = results]_vars
    /\ [](BetweenAnalyses => Len(results) = Len(Discovery))

\* C3 witness: a listing with a scan that has a target URL and one that has
\* none has been handled, and gave one record
TargetUrlWitness ==
    /\ pc = "loop"
    /\ Len(scans) = 2
    /\ HasUrl(scans[1])
    /\ ~HasUrl(scans[2])
    /\ Len(results) = 1

\* C4: no exception escapes to the process boundary: whatever the responses
\* are, main is never left by an exception.
NoExceptionEscapes == pc # "crashed"

\* the analysis_id field of an analysis record, None when it has none
ListedAnalysisId(analysis) ==
    IF "analysis_id" \in DOMAIN analysis.val THEN analysis.val["analysis_id"] ELSE None

\* the scenario of the specification, with the identifier under the key the
\* client reads
ScenarioAnalysis ==
    Dict([analysis_id |-> Str("A1"), name |-> Str("App Scan"),
          application |-> Dict([name |-> Str("Shop")])])

\* the scenario's scans page: a first scan with a target URL, a second without
ScenarioScans(items) ==
    /\ Len(items) = 2
    /\ HasUrl(items[1])
    /\ "application_name" \notin DOMAIN items[1].val
    /\ "target_url" \notin DOMAIN items[2].val

\* C5 (as amended): every record's analysis_id is the analysis_id field of the
\* analysis record for which the scans listing that returned its scan was
\* requested (None when the record has no such field), and that request's
\* path is built from the same value; an analysis listed as {analysis_id: "A1",
\* name: "App Scan", application: {name: "Shop"}} with one scan that has a
\* target_url and one that has none yields exactly one record, with
\* application_name "Shop" and analysis_id "A1".
AnalysisIdIsOwners ==
    /\ \A k \in DOMAIN results :
        LET id == ListedAnalysisId(OwnerAnalysis(k)) IN
        /\ results[k].analysis_id = id
        /\ requests[Discovery[k][1] + 1].endpoint =
              << "/was/configservice/v1/analyses/",
                 IF id = None THEN "None" ELSE id.val,
                 "/scans" >>
    /\ (/\ Returned
        /\ analyses = <<ScenarioAnalysis>>
        /\ ScenarioScans(ScansOf(1)))
       => /\ Len(results) = 1
          /\ results[1].application_name = Str("Shop")
          /\ results[1].analysis_id = Str("A1")

\* C5 witness: the scenario has run to its end
ScenarioWitness ==
    /\ pc = "exit"
    /\ analyses = <<ScenarioAnalysis>>
    /\ ScenarioScans(ScansOf(1))
    /\ Len(results) = 1
    /\ results[1].analysis_id = Str("A1")

\* C5 as the specification states it: the record's analysis_id is the id the
\* analyses page gives the analysis, so that an analysis listed as {id: "A1",
\* name: "App Scan", application: {name: "Shop"}} yields analysis_id "A1".
AnalysisIdIsListedId ==
    \A k \in DOMAIN results :
        "id" \in DOMAIN OwnerAnalysis(k).val
            => results[k].analysis_id = OwnerAnalysis(k).val["id"]

\* the application name of an analysis record, "Unknown" when it has none
ListedAppName(analysis) ==
    IF /\ "application" \in DOMAIN analysis.val
       /\ "name" \in DOMAIN analysis.val["application"].val
    THEN analysis.val["application"].val["name"]
    ELSE Str("Unknown")

\* C6: the application_name of a record is never absent or null, and for a
\* scan without application_name it is the owning analysis's application
\* name, or "Unknown" when the analysis record has none.
ApplicationNameNeverNull ==
    \A k \in DOMAIN results :
        /\ results[k].application_name.tag = "str"
        /\ "application_name" \notin DOMAIN OwnerScan(k).val
            => results[k].application_name = ListedAppName(OwnerAnalysis(k))

\* C7: requests are issued one at a time, each after the previous one has
\* returned: first the analyses listing, then the scans listing of each
\* analysis in listing order; when the listing gave n >= 1 analyses and the
\* extraction returns, exactly 1 + n requests have been issued, whichever
\* scans listings failed.
OnePlusNRequests ==
    /\ Len(served) <= Len(requests)
    /\ Len(requests) <= Len(served) + 1
    /\ (Len(requests) = Len(served) + 1) <=> (pc \in {"analyses_wait", "scans_wait"})
    /\ requests # <<>> => requests[1] = Request(<<"/was/configservice/v1/analyses">>)
    /\ Len(requests) <= 1 + Len(analyses)
    /\ \A i \in 2..Len(requests) :
        LET id == ListedAnalysisId(analyses[i - 1]) IN
        requests[i] = Request(<< "/was/configservice/v1/analyses/",
                                 IF id = None THEN "None" ELSE id.val,
                                 "/scans" >>)
    /\ (Returned /\ analyses # <<>>) => Len(requests) = 1 + Len(analyses)

\* C7 witness: two analyses, the scans listing of the first failed, and the
\* extraction returned after three requests
RequestsWitness ==
    /\ pc = "returned"
    /\ Len(analyses) = 2
    /\ served[2] = None
    /\ Len(requests) = 3

\* C8: the result set is only ever appended to, and its k-th record is the
\* record of the k-th scan with a target URL in discovery order (analyses in
\* listing order, the scans of one analysis in their listing's order).
DiscoveryOrder ==
    /\ [][IsPrefix(results, results')]_vars
    /\ [](/\ Len(results) <= Len(Discovery)
          /\ \A k \in DOMAIN results :
               /\ results[k].target_url = OwnerScan(k).val["target_url"]
               /\ results[k].scan_id = OwnerScan(k).val["scan_id"]
               /\ results[k].analysis_id = ListedAnalysisId(OwnerAnalysis(k)))

\* C8 witness: the returned result set holds a record of the first analysis
\* and, after it, one of the second
DiscoveryOrderWitness ==
    /\ pc = "exit"
    /\ Len(results) = 2
    /\ Discovery[1][1] = 1
    /\ Discovery[2][1] = 2
    /\ results[1] # results[2]

\* the attributes of a result record, as the output file names them
OutputKeys ==
    { "analysis_id", "analysis_name", "application_name", "scan_id",
      "scan_config_name", "target_url", "latest_status", "created_on",
      "last_modified_on" }

\* the JSON object is the record: the same keys, and every value written as
\* the string it is, or as null
SameRecord(object, result) ==
    /\ {object[m].key : m \in DOMAIN object} = OutputKeys
    /\ Len(object) = Cardinality(OutputKeys)
    /\ \A m \in DOMAIN object :
        LET v == result[object[m].key] IN
        IF v.tag = "None"
        THEN object[m].value = [json |-> "null"]
        ELSE object[m].value = [json |-> "string", text |-> v.val]

\* C9: with an empty result set main writes no file (the existing one is left
\* as it was) and prints the one message that nothing was found; with a
\* non-empty one it replaces the file's content by the whole result set, one
\* object per record, in the result set's order.
FileWrittenIffResults ==
    /\ pc # "exit" => file = OldFile
    /\ (pc = "exit" /\ results = <<>>) =>
        /\ file = OldFile
        /\ stdout = << [line |-> "Total target URLs found", n |-> 0],
                       [line |-> "No target URLs found."] >>
    /\ (pc = "exit" /\ results # <<>>) =>
        /\ DOMAIN file = {"array"}
        /\ Len(file.array) = Len(results)
        /\ \A i \in DOMAIN results : SameRecord(file.array[i], results[i])
        /\ \A i \in DOMAIN stdout : stdout[i].line # "No target URLs found."

\* C9 witness: a result set of two different records has been written
FileWrittenWitness ==
    /\ pc = "exit"
    /\ Len(results) = 2
    /\ results[1] # results[2]
    /\ file # OldFile

\* the records of one application, in the result set's order
RecordsOfApp(name) ==
    SelectSeq(results, LAMBDA r : r.application_name = name)

FirstIndex(name) ==
    CHOOSE i \in DOMAIN results :
        /\ results[i].application_name = name
        /\ \A j \in 1..(i - 1) : results[j].application_name # name

\* C10: the groups partition the result set by application_name: one group
\* per application name that occurs, holding exactly the records of that
\* name in their order of the result set; the groups come in the order of
\* their names' first occurrence; grouping the result set again gives the
\* same groups in the same order.
GroupingIsStablePartition ==
    (pc \in {"grouped", "exit"} /\ results # <<>>) =>
        /\ \A i, j \in DOMAIN apps : apps[i].key = apps[j].key => i = j
        /\ {apps[i].key : i \in DOMAIN apps}
              = {results[k].application_name : k \in DOMAIN results}
        /\ \A i \in DOMAIN apps : apps[i].items = RecordsOfApp(apps[i].key)
        /\ \A i, j \in DOMAIN apps :
              i < j => FirstIndex(apps[i].key) < FirstIndex(apps[j].key)
        /\ GroupBy(results, <<>>) = apps

\* C10 witness: two records of two applications have been grouped
GroupingWitness ==
    /\ pc = "exit"
    /\ Len(apps) = 2
    /\ Len(results) = 2

====
